---- MODULE Spec2Model ----
(***************************************************************************)
(* Model of the waltio-metrics engine: parseTransactions (the fold over    *)
(* the transaction list, the derived-field pass, the group aggregation and *)
(* the group historic) followed by calculateValuations.                    *)
(*                                                                         *)
(* JavaScript values are represented as follows.                           *)
(*   - an optional value (x | undefined) is a tuple: <<>> is undefined,    *)
(*     <<v>> is the value v;                                               *)
(*   - amounts, prices and the sums and products built from them are       *)
(*     integers (the inputs are integers, so the float arithmetic of the   *)
(*     source is exact on them);                                           *)
(*   - the result of a division is a record [kind, n, d]: a reduced        *)
(*     fraction n/d, or one of Infinity, -Infinity and NaN;                *)
(*   - an object whose key order matters is a function together with the   *)
(*     sequence of its keys in insertion order;                            *)
(*   - a date string "dd/mm/yyyy hh:mm:ss" is the tuple of its six numeric *)
(*     fields, in the order they are written.                              *)
(***************************************************************************)
EXTENDS Integers, Sequences, FiniteSets, TLC

\* Longest transaction list handed to parseTransactions.
MaxTx == 3

undefined == <<>>

Some(v) == <<v>>

\* Truthiness of an optional number: undefined and 0 are falsy.
TruthyNum(o) == o # undefined /\ o[1] # 0

\* Truthiness of an optional string: undefined and "" are falsy.
TruthyStr(o) == o # undefined /\ o[1] # ""

\* (x || 0) for an optional number.
OrZero(o) == IF TruthyNum(o) THEN o[1] ELSE 0

Abs(x) == IF x < 0 THEN -x ELSE x

RECURSIVE Gcd(_, _)
Gcd(a, b) == IF b = 0 THEN a ELSE Gcd(b, a % b)

Num(n) == [kind |-> "num", n |-> n, d |-> 1]

NaN == [kind |-> "NaN", n |-> 0, d |-> 1]

Infinity == [kind |-> "Infinity", n |-> 1, d |-> 1]

NegInfinity == [kind |-> "Infinity", n |-> -1, d |-> 1]

\* a / b on numbers: a reduced fraction with a positive denominator, or
\* the IEEE result of a division by zero.
Div(a, b) ==
  IF b = 0
  THEN IF a = 0 THEN NaN ELSE IF a > 0 THEN Infinity ELSE NegInfinity
  ELSE LET g == Gcd(Abs(a), Abs(b))
           s == IF b < 0 THEN -1 ELSE 1
       IN [kind |-> "num", n |-> (s * a) \div g, d |-> Abs(b) \div g]

\* x * k for a division result x and a positive integer k.
Times(x, k) ==
  IF x.kind # "num" THEN x
  ELSE LET g == Gcd(Abs(x.n * k), x.d)
       IN [kind |-> "num", n |-> (x.n * k) \div g, d |-> x.d \div g]

RECURSIVE SeqToSet(_)
SeqToSet(s) == IF s = <<>> THEN {} ELSE {Head(s)} \cup SeqToSet(Tail(s))

\* Array.prototype.includes
Includes(s, x) == \E k \in 1..Len(s) : s[k] = x

(***************************************************************************)
(* Inputs: the configuration and the transactions.                         *)
(***************************************************************************)

\* config.tokenAliases as Object.entries yields it.
AliasEntry(mainToken, aliases) == [mainToken |-> mainToken, aliases |-> aliases]

Group(name, members) == [name |-> name, tokens |-> members]

Scenario(name, prices) == [name |-> name, prices |-> prices]

Scenarios ==
  << Scenario("Optimistic", ("BTC" :> 3) @@ ("ETH" :> 2)),
     Scenario("PartialScenario", ("EUR" :> 1) @@ ("BTC" :> 1)) >>

Groups ==
  << Group("layer_1", <<"Bitcoin", "ETH">>),
     Group("twice", <<"BTC", "BTC">>),
     Group("altcoins", <<"SOL">>),
     Group("majors", <<"ETH", "BTC">>) >>

\* A configuration in the shape of config.test.json: every alias belongs to
\* one main token and no main token is an alias.
ConfigTest ==
  [ fiatTokens         |-> <<"EUR">>,
    tokenAliases       |-> << AliasEntry("BTC", <<"Bitcoin">>) >>,
    expectedQuantities |-> ("BTC" :> 2) @@ ("EUR" :> 0),
    groups             |-> Groups,
    scenarios          |-> Scenarios ]

\* A configuration whose alias table chains: a main token of one entry is
\* an alias in another.
ConfigChained ==
  [ ConfigTest EXCEPT
      !.tokenAliases = << AliasEntry("ETH", <<"BTC">>),
                          AliasEntry("BTC", <<"Bitcoin">>) >> ]

Configs == {ConfigTest, ConfigChained}

\* One leg of a transaction: amount, token and price, each optional.
Leg(amount, token, price) == [amount |-> amount, token |-> token, price |-> price]

NoLeg == Leg(undefined, undefined, undefined)

Priced(amount, token, price) == Leg(Some(amount), Some(token), Some(price))

Unpriced(amount, token) == Leg(Some(amount), Some(token), undefined)

\* "dd/mm/yyyy hh:mm:ss"
DateStr(dd, mm, yyyy) == <<dd, mm, yyyy, 0, 0, 0>>

February1 == DateStr(1, 2, 2024)

January2 == DateStr(2, 1, 2024)

\* A TransactionFromWaltio; the fields the engine never reads (timeZone,
\* platform, description, address, trasactionHash, externalId) are left out.
Transaction(type, date, label, received, sent, fee) ==
  [ type               |-> type,
    date               |-> date,
    label              |-> label,
    amountReceived     |-> received.amount,
    tokenReceived      |-> received.token,
    priceTokenReceived |-> received.price,
    amountSent         |-> sent.amount,
    tokenSent          |-> sent.token,
    priceTokenSent     |-> sent.price,
    fees               |-> fee.amount,
    tokenFees          |-> fee.token,
    priceTokenFees     |-> fee.price ]

\* The transactions a list is drawn from: every leg shape the engine
\* distinguishes occurs in one of them.
TransactionPool ==
  { \* fiat buys BTC, the fee is paid in the received token
    Transaction("Échange", February1, "",
                Priced(2, "BTC", 2), Priced(4, "EUR", 1), Priced(1, "BTC", 2)),
    \* fiat buys BTC under its alias, earlier than the others
    Transaction("Échange", January2, "",
                Priced(1, "Bitcoin", 3), Priced(3, "EUR", 1), NoLeg),
    \* BTC sold for fiat
    Transaction("Échange", February1, "",
                Priced(5, "EUR", 1), Priced(1, "BTC", 5), Unpriced(1, "EUR")),
    \* BTC sold for fiat, the received side carries no amount and no price
    Transaction("Échange", February1, "",
                Leg(undefined, Some("EUR"), undefined), Priced(1, "BTC", 4), NoLeg),
    \* BTC swapped for ETH
    Transaction("Échange", January2, "",
                Priced(2, "ETH", 1), Priced(1, "Bitcoin", 2), Priced(1, "ETH", 1)),
    \* crypto purchase recorded as a deposit
    Transaction("Dépôt", February1, "Achat de crypto",
                Priced(1, "ETH", 2), NoLeg, NoLeg),
    \* plain deposit
    Transaction("Dépôt", January2, "",
                Priced(1, "BTC", 2), NoLeg, Unpriced(1, "BTC")),
    \* withdrawal
    Transaction("Retrait", February1, "",
                NoLeg, Priced(1, "ETH", 2), Priced(1, "ETH", 3)),
    \* amounts of 0, with and without a price, and a received amount
    \* without its price
    Transaction("Échange", February1, "",
                Unpriced(1, "ETH"), Priced(0, "EUR", 1), Unpriced(0, "BTC")) }

(***************************************************************************)
(* State.                                                                  *)
(***************************************************************************)
VARIABLES
  config,             \* the process-wide configuration object
  transactions,       \* the list handed to parseTransactions
  pc,                 \* where the run stands
  index,              \* number of transactions the fold has processed
  tokens,             \* Record<string, TokenData>: canonical symbol -> data
  tokenKeys,          \* the keys of tokens in insertion order
  totalInvestedFiat,  \* local of parseTransactions
  totalCashOut,       \* local of parseTransactions
  totalFees,          \* local of parseTransactions ({ value })
  groups,             \* Result.groups, in configuration order
  overview,           \* Result.overview
  valuations,         \* ValuationsResult
  run,                \* 1 for the first run of the engine, 2 for the second
  firstRun,           \* what the first run returned, kept by the caller
  call                \* a direct call of an exported function, and its result

vars ==
  << config, transactions, pc, index, tokens, tokenKeys, totalInvestedFiat,
     totalCashOut, totalFees, groups, overview, valuations, run, firstRun,
     call >>

(***************************************************************************)
(* Alias resolver and transaction classifier.                              *)
(***************************************************************************)

RECURSIVE ResolveFrom(_, _, _)
\* The loop of resolveTokenAlias from entry k on.
ResolveFrom(entries, k, token) ==
  IF k > Len(entries) THEN token
  ELSE IF Includes(entries[k].aliases, token) THEN entries[k].mainToken
  ELSE ResolveFrom(entries, k + 1, token)

\* resolveTokenAlias with the lookup never matching an alias: every symbol
\* is taken for its own main token.
resolveTokenAliasUnmatched(cfg, token) == token

resolveTokenAlias(cfg, token) == ResolveFrom(cfg.tokenAliases, 1, token)

RECURSIVE Dedup(_)
\* [...new Set(s)]: the first occurrence of each element, in order.
Dedup(s) ==
  IF s = <<>> THEN <<>>
  ELSE LET front == Dedup(SubSeq(s, 1, Len(s) - 1))
           last == s[Len(s)]
       IN IF Includes(front, last) THEN front ELSE Append(front, last)

RECURSIVE AliasesFrom(_, _, _)
\* The loop of getTokenAliases from entry k on.
AliasesFrom(entries, k, token) ==
  IF k > Len(entries) THEN <<token>>
  ELSE IF entries[k].mainToken = token \/ Includes(entries[k].aliases, token)
       THEN Dedup(<<entries[k].mainToken>> \o entries[k].aliases)
  ELSE AliasesFrom(entries, k + 1, token)

getTokenAliases(cfg, token) == AliasesFrom(cfg.tokenAliases, 1, token)

\* isFiatInvestmentTransaction without the test of the type on the sent
\* token: any transaction sending a fiat token counts.
isFiatInvestmentAnyType(cfg, transaction) ==
  \/ /\ TruthyStr(transaction.tokenSent)
     /\ Includes(cfg.fiatTokens, transaction.tokenSent[1])
  \/ /\ transaction.type = "Dépôt"
     /\ transaction.label = "Achat de crypto"

isFiatInvestmentTransaction(cfg, transaction) ==
  \/ /\ transaction.type = "Échange"
     /\ TruthyStr(transaction.tokenSent)
     /\ Includes(cfg.fiatTokens, transaction.tokenSent[1])
  \/ /\ transaction.type = "Dépôt"
     /\ transaction.label = "Achat de crypto"

\* isRelevantInvestmentTransaction without the test of the label: every
\* Deposit counts as a purchase.
isRelevantAnyDeposit(transaction) ==
  \/ transaction.type = "Échange"
  \/ transaction.type = "Dépôt"

isRelevantInvestmentTransaction(transaction) ==
  \/ transaction.type = "Échange"
  \/ /\ transaction.type = "Dépôt"
     /\ transaction.label = "Achat de crypto"

(***************************************************************************)
(* Token ledger.  A ledger is the token map under construction:            *)
(* [tokens, keys, threw], threw being set once a statement of the fold     *)
(* has raised a TypeError (a property read on undefined).                  *)
(***************************************************************************)

Ledger(map, keys, threw) == [tokens |-> map, keys |-> keys, threw |-> threw]

NewTokenData(cfg, resolvedToken) ==
  LET expectedQuantity ==
        IF resolvedToken \in DOMAIN cfg.expectedQuantities
        THEN Some(cfg.expectedQuantities[resolvedToken]) ELSE undefined
  IN [ aliases     |-> getTokenAliases(cfg, resolvedToken),
       quantity    |-> [ computed     |-> 0,
                         expected     |-> expectedQuantity,
                         delta        |-> undefined,
                         deltaPercent |-> undefined ],
       cashIn      |-> 0,
       cashOut     |-> 0,
       totalBuy    |-> 0,
       totalSell   |-> 0,
       pnlRealized |-> 0,
       unitPrice   |-> [ computed |-> Num(0),
                         expected |-> IF expectedQuantity # undefined
                                      THEN Some(Num(0)) ELSE undefined ],
       historic    |-> <<>> ]

initializeTokenData(cfg, ledger, token) ==
  LET resolvedToken == resolveTokenAlias(cfg, token)
  IN IF resolvedToken \in DOMAIN ledger.tokens THEN ledger
     ELSE Ledger(ledger.tokens @@ (resolvedToken :> NewTokenData(cfg, resolvedToken)),
                 Append(ledger.keys, resolvedToken),
                 ledger.threw)

\* tokens[token]!.<field> += value; reading a field of a missing entry
\* throws.
AddTo(ledger, token, field, value) ==
  IF token \notin DOMAIN ledger.tokens THEN [ledger EXCEPT !.threw = TRUE]
  ELSE [ledger EXCEPT !.tokens[token] =
          IF field = "totalBuy" THEN [@ EXCEPT !.totalBuy = @ + value]
          ELSE IF field = "cashIn" THEN [@ EXCEPT !.cashIn = @ + value]
          ELSE IF field = "totalSell" THEN [@ EXCEPT !.totalSell = @ + value]
          ELSE IF field = "cashOut" THEN [@ EXCEPT !.cashOut = @ + value]
          ELSE [@ EXCEPT !.quantity.computed = @ + value]]

\* calculatePnlAndUnitPrice with the operands of pnlRealized exchanged.
calculatePnlExchanged(tokenData) ==
  LET pnlRealized == tokenData.totalBuy - tokenData.totalSell
  IN [ pnlRealized |-> pnlRealized,
       unitPriceComputed |->
         IF pnlRealized > 0 THEN Num(0)
         ELSE IF tokenData.quantity.computed # 0
              THEN Div(Abs(pnlRealized), tokenData.quantity.computed)
              ELSE Num(0),
       unitPriceExpected |->
         IF pnlRealized > 0 THEN Num(0)
         ELSE IF tokenData.quantity.expected # undefined
                 /\ tokenData.quantity.expected[1] # 0
              THEN Div(Abs(pnlRealized), tokenData.quantity.expected[1])
              ELSE Num(0) ]

\* calculatePnlAndUnitPrice without the test of a realized gain: the unit
\* price is computed from a gain as from a loss.
calculateUnitPriceOfGain(tokenData) ==
  LET pnlRealized == tokenData.totalSell - tokenData.totalBuy
  IN [ pnlRealized |-> pnlRealized,
       unitPriceComputed |->
         IF tokenData.quantity.computed # 0
         THEN Div(Abs(pnlRealized), tokenData.quantity.computed)
         ELSE Num(0),
       unitPriceExpected |->
         IF pnlRealized > 0 THEN Num(0)
         ELSE IF tokenData.quantity.expected # undefined
                 /\ tokenData.quantity.expected[1] # 0
              THEN Div(Abs(pnlRealized), tokenData.quantity.expected[1])
              ELSE Num(0) ]

calculatePnlAndUnitPrice(tokenData) ==
  LET pnlRealized == tokenData.totalSell - tokenData.totalBuy
  IN [ pnlRealized |-> pnlRealized,
       unitPriceComputed |->
         IF pnlRealized > 0 THEN Num(0)
         ELSE IF tokenData.quantity.computed # 0
              THEN Div(Abs(pnlRealized), tokenData.quantity.computed)
              ELSE Num(0),
       unitPriceExpected |->
         IF pnlRealized > 0 THEN Num(0)
         ELSE IF tokenData.quantity.expected # undefined
                 /\ tokenData.quantity.expected[1] # 0
              THEN Div(Abs(pnlRealized), tokenData.quantity.expected[1])
              ELSE Num(0) ]

\* The entry the deltas are taken against read at the head of the historic
\* in place of its end.
FirstOrZero(historic) ==
  IF historic = <<>>
  THEN [cashIn |-> 0, cashOut |-> 0, totalBuy |-> 0, totalSell |-> 0]
  ELSE [ cashIn    |-> historic[1].cashIn,
         cashOut   |-> historic[1].cashOut,
         totalBuy  |-> historic[1].totalBuy,
         totalSell |-> historic[1].totalSell ]

\* lastHistoricEntry?.field || 0, for the four fields read.
LastOrZero(historic) ==
  IF historic = <<>>
  THEN [cashIn |-> 0, cashOut |-> 0, totalBuy |-> 0, totalSell |-> 0]
  ELSE [ cashIn    |-> historic[Len(historic)].cashIn,
         cashOut   |-> historic[Len(historic)].cashOut,
         totalBuy  |-> historic[Len(historic)].totalBuy,
         totalSell |-> historic[Len(historic)].totalSell ]

HistoricEntry(tokenData, date, transaction) ==
  LET derived == calculatePnlAndUnitPrice(tokenData)
      last == LastOrZero(tokenData.historic)
  IN [ date           |-> date,
       quantity       |-> tokenData.quantity.computed,
       totalBuy       |-> tokenData.totalBuy,
       totalBuyDelta  |-> tokenData.totalBuy - last.totalBuy,
       totalSell      |-> tokenData.totalSell,
       totalSellDelta |-> tokenData.totalSell - last.totalSell,
       cashIn         |-> tokenData.cashIn,
       cashInDelta    |-> tokenData.cashIn - last.cashIn,
       cashOut        |-> tokenData.cashOut,
       cashOutDelta   |-> tokenData.cashOut - last.cashOut,
       pnlRealized    |-> derived.pnlRealized,
       unitPrice      |-> derived.unitPriceComputed,
       transaction    |-> transaction ]

\* addHistoricEntry with unshift in place of push: the new entry comes first.
addHistoricEntryUnshift(tokenData, date, transaction) ==
  [tokenData EXCEPT !.historic = <<HistoricEntry(tokenData, date, transaction)>> \o @]

addHistoricEntry(tokenData, date, transaction) ==
  [tokenData EXCEPT !.historic = Append(@, HistoricEntry(tokenData, date, transaction))]

\* updateInvestmentData without the fiat test: every purchase counts as
\* cash paid in.
updateInvestmentDataAnyCashIn(cfg, transaction, ledger) ==
  IF /\ TruthyNum(transaction.amountReceived)
     /\ TruthyNum(transaction.priceTokenReceived)
     /\ TruthyStr(transaction.tokenReceived)
  THEN LET tokenReceived == resolveTokenAlias(cfg, transaction.tokenReceived[1])
           totalValueReceived ==
             transaction.amountReceived[1] * transaction.priceTokenReceived[1]
           bought == AddTo(initializeTokenData(cfg, ledger, tokenReceived),
                           tokenReceived, "totalBuy", totalValueReceived)
       IN IF ~bought.threw
          THEN AddTo(bought, tokenReceived, "cashIn", totalValueReceived)
          ELSE bought
  ELSE ledger

updateInvestmentData(cfg, transaction, ledger) ==
  IF /\ TruthyNum(transaction.amountReceived)
     /\ TruthyNum(transaction.priceTokenReceived)
     /\ TruthyStr(transaction.tokenReceived)
  THEN LET tokenReceived == resolveTokenAlias(cfg, transaction.tokenReceived[1])
           totalValueReceived ==
             transaction.amountReceived[1] * transaction.priceTokenReceived[1]
           bought == AddTo(initializeTokenData(cfg, ledger, tokenReceived),
                           tokenReceived, "totalBuy", totalValueReceived)
       IN IF ~bought.threw /\ isFiatInvestmentTransaction(cfg, transaction)
          THEN AddTo(bought, tokenReceived, "cashIn", totalValueReceived)
          ELSE bought
  ELSE ledger

\* updateSellData adding the amount sent, its price left out.
updateSellDataAmount(cfg, transaction, ledger) ==
  IF /\ transaction.type = "Échange"
     /\ TruthyNum(transaction.amountSent)
     /\ TruthyNum(transaction.priceTokenSent)
     /\ TruthyStr(transaction.tokenSent)
  THEN LET tokenSent == resolveTokenAlias(cfg, transaction.tokenSent[1])
       IN AddTo(initializeTokenData(cfg, ledger, tokenSent),
                tokenSent, "totalSell", transaction.amountSent[1])
  ELSE ledger

updateSellData(cfg, transaction, ledger) ==
  IF /\ transaction.type = "Échange"
     /\ TruthyNum(transaction.amountSent)
     /\ TruthyNum(transaction.priceTokenSent)
     /\ TruthyStr(transaction.tokenSent)
  THEN LET tokenSent == resolveTokenAlias(cfg, transaction.tokenSent[1])
           totalValueSent == transaction.amountSent[1] * transaction.priceTokenSent[1]
       IN AddTo(initializeTokenData(cfg, ledger, tokenSent),
                tokenSent, "totalSell", totalValueSent)
  ELSE ledger

updateCashOutData(cfg, transaction, ledger) ==
  IF /\ transaction.type = "Échange"
     /\ TruthyNum(transaction.amountReceived)
     /\ TruthyNum(transaction.priceTokenReceived)
     /\ TruthyStr(transaction.tokenReceived)
     /\ TruthyStr(transaction.tokenSent)
     /\ TruthyNum(transaction.amountSent)
     /\ TruthyNum(transaction.priceTokenSent)
     /\ Includes(cfg.fiatTokens, transaction.tokenReceived[1])
  THEN LET tokenSent == resolveTokenAlias(cfg, transaction.tokenSent[1])
           totalValueSent == transaction.amountSent[1] * transaction.priceTokenSent[1]
       IN AddTo(initializeTokenData(cfg, ledger, tokenSent),
                tokenSent, "cashOut", totalValueSent)
  ELSE ledger

\* updateFeesData counting a fee that has no price at a price of 1.
updateFeesDataUnpriced(transaction, fees) ==
  IF TruthyNum(transaction.fees)
  THEN fees + transaction.fees[1]
              * (IF TruthyNum(transaction.priceTokenFees)
                 THEN transaction.priceTokenFees[1] ELSE 1)
  ELSE fees

updateFeesData(transaction, fees) ==
  IF TruthyNum(transaction.fees) /\ TruthyNum(transaction.priceTokenFees)
  THEN fees + transaction.fees[1] * transaction.priceTokenFees[1]
  ELSE fees

\* A leg of updateQuantityData that adds the amount whatever the side.
QuantityLegAdded(cfg, ledger, present, token, change) ==
  IF ledger.threw \/ ~present THEN ledger
  ELSE LET resolved == resolveTokenAlias(cfg, token[1])
       IN AddTo(initializeTokenData(cfg, ledger, resolved),
                resolved, "quantity.computed", Abs(change))

\* One leg of updateQuantityData: tokens[token].quantity.computed += change.
QuantityLeg(cfg, ledger, present, token, change) ==
  IF ledger.threw \/ ~present THEN ledger
  ELSE LET resolved == resolveTokenAlias(cfg, token[1])
       IN AddTo(initializeTokenData(cfg, ledger, resolved),
                resolved, "quantity.computed", change)

\* The Set updatedTokens of updateQuantityData, in insertion order.
UpdatedTokens(cfg, transaction) ==
  Dedup(
    (IF TruthyNum(transaction.amountReceived) /\ TruthyStr(transaction.tokenReceived)
     THEN <<resolveTokenAlias(cfg, transaction.tokenReceived[1])>> ELSE <<>>)
    \o
    (IF TruthyNum(transaction.amountSent) /\ TruthyStr(transaction.tokenSent)
     THEN <<resolveTokenAlias(cfg, transaction.tokenSent[1])>> ELSE <<>>)
    \o
    (IF TruthyNum(transaction.fees) /\ TruthyStr(transaction.tokenFees)
     THEN <<resolveTokenAlias(cfg, transaction.tokenFees[1])>> ELSE <<>>))

RECURSIVE AppendEntries(_, _, _, _)
\* addHistoricEntry for every name of a list, a name listed twice twice.
AppendEntries(map, names, date, transaction) ==
  IF names = <<>> THEN map
  ELSE LET before == AppendEntries(map, SubSeq(names, 1, Len(names) - 1),
                                   date, transaction)
           t == names[Len(names)]
       IN [before EXCEPT ![t] = addHistoricEntry(@, date, transaction)]

\* updateQuantityData keeping the updated tokens in a list in place of a
\* Set: a token named by two legs gets two entries.
updateQuantityDataEachLeg(cfg, transaction, ledger, date) ==
  LET received ==
        QuantityLeg(cfg, ledger,
                    TruthyNum(transaction.amountReceived)
                      /\ TruthyStr(transaction.tokenReceived),
                    transaction.tokenReceived, OrZero(transaction.amountReceived))
      sent ==
        QuantityLeg(cfg, received,
                    TruthyNum(transaction.amountSent) /\ TruthyStr(transaction.tokenSent),
                    transaction.tokenSent, -OrZero(transaction.amountSent))
      fee ==
        QuantityLeg(cfg, sent,
                    TruthyNum(transaction.fees) /\ TruthyStr(transaction.tokenFees),
                    transaction.tokenFees, -OrZero(transaction.fees))
      updatedTokens ==
        (IF TruthyNum(transaction.amountReceived) /\ TruthyStr(transaction.tokenReceived)
         THEN <<resolveTokenAlias(cfg, transaction.tokenReceived[1])>> ELSE <<>>)
        \o
        (IF TruthyNum(transaction.amountSent) /\ TruthyStr(transaction.tokenSent)
         THEN <<resolveTokenAlias(cfg, transaction.tokenSent[1])>> ELSE <<>>)
        \o
        (IF TruthyNum(transaction.fees) /\ TruthyStr(transaction.tokenFees)
         THEN <<resolveTokenAlias(cfg, transaction.tokenFees[1])>> ELSE <<>>)
  IN IF fee.threw THEN fee
     ELSE [fee EXCEPT !.tokens = AppendEntries(@, updatedTokens, date, transaction)]

updateQuantityData(cfg, transaction, ledger, date) ==
  LET received ==
        QuantityLeg(cfg, ledger,
                    TruthyNum(transaction.amountReceived)
                      /\ TruthyStr(transaction.tokenReceived),
                    transaction.tokenReceived, OrZero(transaction.amountReceived))
      sent ==
        QuantityLeg(cfg, received,
                    TruthyNum(transaction.amountSent) /\ TruthyStr(transaction.tokenSent),
                    transaction.tokenSent, -OrZero(transaction.amountSent))
      fee ==
        QuantityLeg(cfg, sent,
                    TruthyNum(transaction.fees) /\ TruthyStr(transaction.tokenFees),
                    transaction.tokenFees, -OrZero(transaction.fees))
      updatedTokens == SeqToSet(UpdatedTokens(cfg, transaction))
  IN IF fee.threw THEN fee
     ELSE [fee EXCEPT !.tokens =
             [t \in DOMAIN @ |->
                IF t \in updatedTokens
                THEN addHistoricEntry(@[t], date, transaction)
                ELSE @[t]]]

\* The body of the forEach of parseTransactions on the token map; a
\* TypeError leaves the rest of the body undone.
FoldTokens(cfg, transaction, ledger) ==
  LET invested ==
        IF isRelevantInvestmentTransaction(transaction)
        THEN updateInvestmentData(cfg, transaction, ledger) ELSE ledger
      sold ==
        IF ~invested.threw /\ transaction.type = "Échange"
        THEN updateSellData(cfg, transaction, invested) ELSE invested
      cashedOut ==
        IF ~sold.threw /\ transaction.type = "Échange"
        THEN updateCashOutData(cfg, transaction, sold) ELSE sold
  IN IF cashedOut.threw THEN cashedOut
     ELSE updateQuantityData(cfg, transaction, cashedOut, transaction.date)

\* totalInvestedFiat += amountSent * priceTokenSent, first statement of the body.
FoldInvestedFiat(cfg, transaction, invested) ==
  IF /\ isFiatInvestmentTransaction(cfg, transaction)
     /\ TruthyNum(transaction.amountSent)
     /\ TruthyNum(transaction.priceTokenSent)
  THEN invested + transaction.amountSent[1] * transaction.priceTokenSent[1]
  ELSE invested

(***************************************************************************)
(* Second pass of parseTransactions: totals, derived fields, groups.       *)
(***************************************************************************)

RECURSIVE Sum(_)
\* reduce((sum, x) => sum + x, 0)
Sum(s) == IF s = <<>> THEN 0 ELSE Sum(SubSeq(s, 1, Len(s) - 1)) + s[Len(s)]

\* Object.values(tokens).reduce((sum, tokenData) => sum + tokenData.cashIn, 0)
SumCashIn(map, keys) == Sum([k \in 1..Len(keys) |-> map[keys[k]].cashIn])

\* Object.values(tokens).reduce((sum, tokenData) => sum + tokenData.cashOut, 0)
SumCashOut(map, keys) == Sum([k \in 1..Len(keys) |-> map[keys[k]].cashOut])

\* The derived-field pass with the operands of delta exchanged.
DeriveTokenDataReversed(tokenData) ==
  LET derived == calculatePnlAndUnitPrice(tokenData)
      expected == tokenData.quantity.expected
      delta == IF expected # undefined
               THEN Some(expected[1] - tokenData.quantity.computed)
               ELSE undefined
      deltaPercent == IF expected # undefined
                      THEN Some(Times(Div(delta[1], expected[1]), 100))
                      ELSE undefined
  IN [tokenData EXCEPT
        !.pnlRealized = derived.pnlRealized,
        !.unitPrice = [ computed |-> derived.unitPriceComputed,
                        expected |-> Some(derived.unitPriceExpected) ],
        !.quantity.delta = delta,
        !.quantity.deltaPercent = deltaPercent]

\* The body of the Object.values(tokens).forEach of the derived-field pass.
DeriveTokenData(tokenData) ==
  LET derived == calculatePnlAndUnitPrice(tokenData)
      expected == tokenData.quantity.expected
      delta == IF expected # undefined
               THEN Some(tokenData.quantity.computed - expected[1])
               ELSE undefined
      deltaPercent == IF expected # undefined
                      THEN Some(Times(Div(delta[1], expected[1]), 100))
                      ELSE undefined
  IN [tokenData EXCEPT
        !.pnlRealized = derived.pnlRealized,
        !.unitPrice = [ computed |-> derived.unitPriceComputed,
                        expected |-> Some(derived.unitPriceExpected) ],
        !.quantity.delta = delta,
        !.quantity.deltaPercent = deltaPercent]

EmptyGroupData(name) ==
  [ name        |-> name,
    tokens      |-> <<>>,
    cashIn      |-> 0,
    cashOut     |-> 0,
    totalBuy    |-> 0,
    totalSell   |-> 0,
    pnlRealized |-> 0,
    historic    |-> <<>> ]

RECURSIVE AddMembers(_, _, _, _)
\* tokensInGroup.forEach of the group aggregation, over the first n members.
AddMembers(cfg, map, tokensInGroup, groupData) ==
  IF tokensInGroup = <<>> THEN groupData
  ELSE LET before == AddMembers(cfg, map,
                                SubSeq(tokensInGroup, 1, Len(tokensInGroup) - 1),
                                groupData)
           resolvedTokenName ==
             resolveTokenAlias(cfg, tokensInGroup[Len(tokensInGroup)])
       IN IF resolvedTokenName \in DOMAIN map
          THEN LET token == map[resolvedTokenName]
               IN [before EXCEPT
                     !.tokens = Append(@, resolvedTokenName),
                     !.cashIn = @ + token.cashIn,
                     !.cashOut = @ + token.cashOut,
                     !.totalBuy = @ + token.totalBuy,
                     !.totalSell = @ + token.totalSell,
                     !.pnlRealized = @ + token.pnlRealized]
          ELSE before

GroupAggregate(cfg, map, group) ==
  AddMembers(cfg, map, group.tokens, EmptyGroupData(group.name))

(***************************************************************************)
(* Group historic.                                                         *)
(***************************************************************************)

IsLeapYear(y) == (y % 4 = 0 /\ y % 100 # 0) \/ y % 400 = 0

LeapDaysBefore(y) == ((y - 1) \div 4) - ((y - 1) \div 100) + ((y - 1) \div 400)

\* Days of a common year before month index m (0 = January).
DaysBeforeMonth(m) == <<0, 31, 59, 90, 120, 151, 181, 212, 243, 273, 304, 334>>[m + 1]

\* new Date(year, monthIndex, day, h, mi, s).getTime(), in seconds: a month
\* index outside 0..11 and a day outside the month carry over as Date does.
DateTime(year, monthIndex, day, h, mi, s) ==
  LET y == year + (monthIndex \div 12)
      m == monthIndex % 12
      days == 365 * (y - 1970) + (LeapDaysBefore(y) - LeapDaysBefore(1970))
              + DaysBeforeMonth(m) + (IF IsLeapYear(y) /\ m > 1 THEN 1 ELSE 0)
              + (day - 1)
  IN ((days * 24 + h) * 60 + mi) * 60 + s

\* parseDate(dateString).getTime(): the first number of the string is read
\* as the day and the second as the month.
parseDate(date) == DateTime(date[3], date[2] - 1, date[1], date[4], date[5], date[6])

RECURSIVE FlatHistoric(_, _)
\* tokensInGroup.flatMap(name => tokens[name] ? tokens[name].historic : [])
FlatHistoric(map, tokensInGroup) ==
  IF tokensInGroup = <<>> THEN <<>>
  ELSE (IF Head(tokensInGroup) \in DOMAIN map
        THEN map[Head(tokensInGroup)].historic ELSE <<>>)
       \o FlatHistoric(map, Tail(tokensInGroup))

\* e placed before every entry of the sorted s that is not earlier than it:
\* entries of one timestamp end up in the reverse of their order.
InsertBeforeEqual(s, e) ==
  LET later == {k \in 1..Len(s) : parseDate(s[k].date) >= parseDate(e.date)}
      at == IF later = {} THEN Len(s) + 1
            ELSE CHOOSE k \in later : \A j \in later : k <= j
  IN SubSeq(s, 1, at - 1) \o <<e>> \o SubSeq(s, at, Len(s))

\* e placed after every entry of the sorted s that is not later than it.
InsertByDate(s, e) ==
  LET later == {k \in 1..Len(s) : parseDate(s[k].date) > parseDate(e.date)}
      at == IF later = {} THEN Len(s) + 1
            ELSE CHOOSE k \in later : \A j \in later : k <= j
  IN SubSeq(s, 1, at - 1) \o <<e>> \o SubSeq(s, at, Len(s))

RECURSIVE SortByDate(_)
\* Array.prototype.sort with (a, b) => parseDate(a.date) - parseDate(b.date):
\* ascending and stable.
SortByDate(s) ==
  IF s = <<>> THEN <<>>
  ELSE InsertByDate(SortByDate(SubSeq(s, 1, Len(s) - 1)), s[Len(s)])

RECURSIVE Accumulate(_)
\* groupHistoricEntriesSorted.forEach: the points built from the entries.
Accumulate(entries) ==
  IF entries = <<>> THEN <<>>
  ELSE LET points == Accumulate(SubSeq(entries, 1, Len(entries) - 1))
           entry == entries[Len(entries)]
           lastEntry ==
             IF points = <<>>
             THEN [cashIn |-> 0, cashOut |-> 0, totalBuy |-> 0, totalSell |-> 0,
                   pnlRealized |-> 0]
             ELSE points[Len(points)]
           newTotalBuy == lastEntry.totalBuy + entry.totalBuyDelta
           newTotalSell == lastEntry.totalSell + entry.totalSellDelta
       IN Append(points,
                 [ date        |-> entry.date,
                   cashIn      |-> lastEntry.cashIn + entry.cashInDelta,
                   cashOut     |-> lastEntry.cashOut + entry.cashOutDelta,
                   totalBuy    |-> newTotalBuy,
                   totalSell   |-> newTotalSell,
                   pnlRealized |-> newTotalSell - newTotalBuy,
                   transaction |-> entry.transaction ])

GroupHistoric(map, tokensInGroup) ==
  Accumulate(SortByDate(FlatHistoric(map, tokensInGroup)))

(***************************************************************************)
(* Valuation engine.                                                       *)
(***************************************************************************)

EmptyScenarioValuation(scenario) ==
  [ scenarioName    |-> scenario.name,
    valuedTokens    |-> <<>>,
    tokenValuations |-> <<>>,
    totalComputed   |-> 0,
    totalExpected   |-> Some(0) ]

\* The body of the loop without its test on the price: a token the scenario
\* does not price is valued at 0 and stored.
ValueTokenUnpriced(scenario, map, token, scenarioValuations) ==
  LET tokenPrice == IF token \in DOMAIN scenario.prices
                    THEN scenario.prices[token] ELSE 0
      computedValue == map[token].quantity.computed * tokenPrice
  IN [scenarioValuations EXCEPT
        !.totalComputed = @ + computedValue,
        !.valuedTokens = Append(@, token),
        !.tokenValuations =
          (token :> [computed |-> computedValue, expected |-> undefined]) @@ @]

\* The body of the Object.keys(result.tokens).forEach of calculateValuations.
ValueToken(scenario, map, token, scenarioValuations) ==
  IF token \in DOMAIN scenario.prices
  THEN LET tokenData == map[token]
           tokenPrice == scenario.prices[token]
           computedValue == tokenData.quantity.computed * tokenPrice
           expectedValue ==
             IF TruthyNum(tokenData.quantity.expected)
             THEN Some(tokenData.quantity.expected[1] * tokenPrice)
             ELSE undefined
       IN [scenarioValuations EXCEPT
             !.totalComputed = @ + computedValue,
             !.totalExpected = IF expectedValue # undefined
                               THEN Some(OrZero(@) + expectedValue[1])
                               ELSE undefined,
             !.valuedTokens = IF Includes(@, token) THEN @ ELSE Append(@, token),
             !.tokenValuations =
               (token :> [computed |-> computedValue, expected |-> expectedValue]) @@ @]
  ELSE scenarioValuations

RECURSIVE ValueTokens(_, _, _)
ValueTokens(scenario, map, keys) ==
  IF keys = <<>> THEN EmptyScenarioValuation(scenario)
  ELSE ValueToken(scenario, map, keys[Len(keys)],
                  ValueTokens(scenario, map, SubSeq(keys, 1, Len(keys) - 1)))

calculateValuations(cfg, map, keys) ==
  [k \in 1..Len(cfg.scenarios) |-> ValueTokens(cfg.scenarios[k], map, keys)]

(***************************************************************************)
(* The engine as a state machine.                                          *)
(***************************************************************************)

TransactionLists == UNION {[1..n -> TransactionPool] : n \in 0..MaxTx}

\* The fee accumulator kept outside parseTransactions: a new call goes on
\* from the total of the call before.
StaleFees(left) ==
  [ tokens            |-> <<>>,
    tokenKeys         |-> <<>>,
    totalInvestedFiat |-> 0,
    totalFees         |-> left.totalFees,
    totalCashOut      |-> 0 ]

\* The locals parseTransactions declares on entry.  left is what an earlier
\* call left in its own locals: a new call sees none of it.
FreshLocals(left) ==
  [ tokens            |-> <<>>,
    tokenKeys         |-> <<>>,
    totalInvestedFiat |-> 0,
    totalFees         |-> 0,
    totalCashOut      |-> 0 ]

\* No earlier call: nothing is left.
NoLocals ==
  [ tokens |-> <<>>, tokenKeys |-> <<>>, totalInvestedFiat |-> 0, totalFees |-> 0,
    totalCashOut |-> 0 ]

NoOverview == [cashIn |-> 0, cashOut |-> 0, fees |-> 0]

\* What a run of the engine hands back to its caller.
Outcome ==
  [ pc         |-> pc,
    tokens     |-> tokens,
    tokenKeys  |-> tokenKeys,
    groups     |-> groups,
    overview   |-> overview,
    valuations |-> valuations ]

\* No exported function is called on its own.
NoCall == <<>>

Init ==
  /\ config \in Configs
  /\ transactions \in TransactionLists
  /\ pc = "fold"
  /\ index = 0
  /\ tokens = FreshLocals(NoLocals).tokens
  /\ tokenKeys = FreshLocals(NoLocals).tokenKeys
  /\ totalInvestedFiat = FreshLocals(NoLocals).totalInvestedFiat
  /\ totalCashOut = FreshLocals(NoLocals).totalCashOut
  /\ totalFees = FreshLocals(NoLocals).totalFees
  /\ groups = <<>>
  /\ overview = NoOverview
  /\ valuations = <<>>
  /\ run = 1
  /\ firstRun = <<>>
  /\ call = NoCall

\* One iteration over a list that parseTransactions has sorted by date in
\* place before reading it.
ProcessTransactionSorted ==
  /\ pc = "fold"
  /\ index < Len(transactions)
  /\ transactions' = SortByDate(transactions)
  /\ LET transaction == SortByDate(transactions)[index + 1]
         ledger == FoldTokens(config, transaction, Ledger(tokens, tokenKeys, FALSE))
     IN /\ totalInvestedFiat' = FoldInvestedFiat(config, transaction, totalInvestedFiat)
        /\ tokens' = ledger.tokens
        /\ tokenKeys' = ledger.keys
        /\ totalFees' = IF ledger.threw THEN totalFees
                        ELSE updateFeesData(transaction, totalFees)
        /\ pc' = IF ledger.threw THEN "threw" ELSE "fold"
        /\ index' = index + 1
  /\ UNCHANGED <<config, totalCashOut, groups, overview, valuations, run, firstRun,
                 call>>

\* One iteration of transactions.forEach.
ProcessTransaction ==
  /\ pc = "fold"
  /\ index < Len(transactions)
  /\ LET transaction == transactions[index + 1]
         ledger == FoldTokens(config, transaction, Ledger(tokens, tokenKeys, FALSE))
     IN /\ totalInvestedFiat' = FoldInvestedFiat(config, transaction, totalInvestedFiat)
        /\ tokens' = ledger.tokens
        /\ tokenKeys' = ledger.keys
        /\ totalFees' = IF ledger.threw THEN totalFees
                        ELSE updateFeesData(transaction, totalFees)
        /\ pc' = IF ledger.threw THEN "threw" ELSE "fold"
        /\ index' = index + 1
  /\ UNCHANGED <<config, transactions, totalCashOut, groups, overview, valuations,
                 run, firstRun, call>>

\* The pass after the fold keeping the total the fold accumulated from the
\* sent side in place of the sum of cashIn over the tokens.
DeriveFieldsAccumulated ==
  /\ pc = "fold"
  /\ index = Len(transactions)
  /\ totalCashOut' = SumCashOut(tokens, tokenKeys)
  /\ tokens' = [t \in DOMAIN tokens |-> DeriveTokenData(tokens[t])]
  /\ pc' = "groups"
  /\ UNCHANGED <<config, transactions, index, tokenKeys, totalInvestedFiat, totalFees,
                 groups, overview, valuations, run, firstRun, call>>

\* After the fold: the totals over the tokens and the derived fields.
DeriveFields ==
  /\ pc = "fold"
  /\ index = Len(transactions)
  /\ totalInvestedFiat' = SumCashIn(tokens, tokenKeys)
  /\ totalCashOut' = SumCashOut(tokens, tokenKeys)
  /\ tokens' = [t \in DOMAIN tokens |-> DeriveTokenData(tokens[t])]
  /\ pc' = "groups"
  /\ UNCHANGED <<config, transactions, index, tokenKeys, totalFees, groups, overview,
                 valuations, run, firstRun, call>>

\* Object.keys(config.groups).reduce: the aggregate of every group.
AggregateGroups ==
  /\ pc = "groups"
  /\ groups' = [g \in 1..Len(config.groups) |->
                  GroupAggregate(config, tokens, config.groups[g])]
  /\ pc' = "groupHistoric"
  /\ UNCHANGED <<config, transactions, index, tokens, tokenKeys, totalInvestedFiat,
                 totalCashOut, totalFees, overview, valuations, run, firstRun, call>>

\* Object.keys(groups).forEach: the historic of every group, and the return.
BuildGroupHistoric ==
  /\ pc = "groupHistoric"
  /\ groups' = [g \in 1..Len(groups) |->
                  [groups[g] EXCEPT
                     !.historic = GroupHistoric(tokens, config.groups[g].tokens)]]
  /\ overview' = [cashIn |-> totalInvestedFiat, cashOut |-> totalCashOut,
                  fees |-> totalFees]
  /\ pc' = "parsed"
  /\ UNCHANGED <<config, transactions, index, tokens, tokenKeys, totalInvestedFiat,
                 totalCashOut, totalFees, valuations, run, firstRun, call>>

CalculateValuations ==
  /\ pc = "parsed"
  /\ valuations' = calculateValuations(config, tokens, tokenKeys)
  /\ pc' = "done"
  /\ UNCHANGED <<config, transactions, index, tokens, tokenKeys, totalInvestedFiat,
                 totalCashOut, totalFees, groups, overview, run, firstRun, call>>

Next ==
  \/ ProcessTransaction
  \/ DeriveFields
  \/ AggregateGroups
  \/ BuildGroupHistoric
  \/ CalculateValuations

Spec == Init /\ [][Next]_vars

\* The caller runs the engine a second time on the same list and the same
\* configuration.
RunAgain ==
  /\ run = 1
  /\ pc \in {"done", "threw"}
  /\ firstRun' = Outcome
  /\ LET left == [ tokens |-> tokens, tokenKeys |-> tokenKeys,
                   totalInvestedFiat |-> totalInvestedFiat,
                   totalFees |-> totalFees, totalCashOut |-> totalCashOut ]
         locals == FreshLocals(left)
     IN /\ tokens' = locals.tokens
        /\ tokenKeys' = locals.tokenKeys
        /\ totalInvestedFiat' = locals.totalInvestedFiat
        /\ totalFees' = locals.totalFees
        /\ totalCashOut' = locals.totalCashOut
  /\ groups' = <<>>
  /\ overview' = NoOverview
  /\ valuations' = <<>>
  /\ index' = 0
  /\ pc' = "fold"
  /\ run' = 2
  /\ UNCHANGED <<config, transactions, call>>

NextTwice == Next \/ RunAgain

SpecTwice == Init /\ [][NextTwice]_vars

(***************************************************************************)
(* The exported functions called on their own, as the unit tests call      *)
(* them: resolveTokenAlias on a symbol and isFiatInvestmentTransaction on  *)
(* a transaction, under a configuration.                                   *)
(***************************************************************************)

MaxAliasEntries == 2

MaxAliases == 1

Symbols == {"BTC", "ETH", "Bitcoin"}

\* The alias lists of at most MaxAliases symbols.
AliasLists == UNION {[1..n -> Symbols] : n \in 0..MaxAliases}

\* The tables of at most MaxAliasEntries entries; the main tokens are the
\* keys of an object and so differ from one another.
AliasTables ==
  { table \in UNION {[1..n -> [mainToken : Symbols, aliases : AliasLists]] :
                      n \in 0..MaxAliasEntries} :
      \A i, j \in 1..Len(table) :
        table[i].mainToken = table[j].mainToken => i = j }

FiatLists == {<<>>, <<"EUR">>}

\* Transactions of every type, with and without the purchase label, sending
\* nothing, a fiat token or a crypto token.
ClassifiedTransactions ==
  { Transaction(type, February1, label, NoLeg,
                Leg(undefined, tokenSent, undefined), NoLeg) :
      type \in {"Échange", "Dépôt", "Retrait"},
      label \in {"", "Achat de crypto"},
      tokenSent \in {undefined, Some("EUR"), Some("BTC")} }

Calls ==
  { [ fn |-> "resolveTokenAlias", config |-> [ConfigTest EXCEPT !.tokenAliases = table],
      argument |-> token, returned |-> undefined ] :
      table \in AliasTables, token \in Symbols }
  \cup
  { [ fn |-> "isFiatInvestmentTransaction",
      config |-> [ConfigTest EXCEPT !.fiatTokens = fiat],
      argument |-> transaction, returned |-> undefined ] :
      fiat \in FiatLists, transaction \in ClassifiedTransactions }

InitCalls ==
  /\ call \in Calls
  /\ config = call.config
  /\ transactions = <<>>
  /\ pc = "call"
  /\ index = 0
  /\ tokens = <<>>
  /\ tokenKeys = <<>>
  /\ totalInvestedFiat = 0
  /\ totalCashOut = 0
  /\ totalFees = 0
  /\ groups = <<>>
  /\ overview = NoOverview
  /\ valuations = <<>>
  /\ run = 1
  /\ firstRun = <<>>

CallResolveTokenAlias ==
  /\ pc = "call"
  /\ call.fn = "resolveTokenAlias"
  /\ call' = [call EXCEPT !.returned = Some(resolveTokenAlias(config, call.argument))]
  /\ pc' = "returned"
  /\ UNCHANGED <<config, transactions, index, tokens, tokenKeys, totalInvestedFiat,
                 totalCashOut, totalFees, groups, overview, valuations, run, firstRun>>

CallIsFiatInvestmentTransaction ==
  /\ pc = "call"
  /\ call.fn = "isFiatInvestmentTransaction"
  /\ call' = [call EXCEPT
                 !.returned = Some(isFiatInvestmentTransaction(config, call.argument))]
  /\ pc' = "returned"
  /\ UNCHANGED <<config, transactions, index, tokens, tokenKeys, totalInvestedFiat,
                 totalCashOut, totalFees, groups, overview, valuations, run, firstRun>>

NextCalls ==
  \/ CallResolveTokenAlias
  \/ CallIsFiatInvestmentTransaction

SpecCalls == InitCalls /\ [][NextCalls]_vars

(***************************************************************************)
(* Properties.                                                             *)
(***************************************************************************)

Returned == pc \in {"parsed", "done"}

IsPrefix(s, t) == Len(s) <= Len(t) /\ SubSeq(t, 1, Len(s)) = s

RECURSIVE SumSet(_, _)
\* Sum of Value[t] over the tokens t of a set.
SumSet(set, Value) ==
  IF set = {} THEN 0
  ELSE LET t == CHOOSE x \in set : TRUE
       IN Value[t] + SumSet(set \ {t}, Value)

\* The tokens of the ledger that have a price in a scenario.
PricedTokens(scenario) == {t \in DOMAIN tokens : t \in DOMAIN scenario.prices}

\* C1: in every scenario, if a token that has a price in the scenario has
\* no expected quantity, the scenario's totalExpected is undefined, wherever
\* that token stands in the iteration order.
C1_TotalExpectedUndefined ==
  pc = "done" =>
    \A k \in 1..Len(valuations) :
      (\E t \in PricedTokens(config.scenarios[k]) :
          tokens[t].quantity.expected = undefined)
      => valuations[k].totalExpected = undefined

\* C2: pnlRealized = totalSell - totalBuy in every historic entry of every
\* token, and in the TokenData of the returned Result.
C2_PnlIsSellMinusBuy ==
  \A t \in DOMAIN tokens :
    /\ \A h \in 1..Len(tokens[t].historic) :
         LET entry == tokens[t].historic[h]
         IN entry.pnlRealized = entry.totalSell - entry.totalBuy
    /\ Returned => tokens[t].pnlRealized = tokens[t].totalSell - tokens[t].totalBuy

C2_Witness ==
  /\ pc = "done"
  /\ \E t \in DOMAIN tokens :
       /\ Len(tokens[t].historic) >= 2
       /\ tokens[t].pnlRealized < 0
       /\ tokens[t].historic[1].pnlRealized # tokens[t].pnlRealized

\* C3: in the returned Result, each group's cashIn, cashOut, totalBuy and
\* totalSell equal the sum of that field over the tokens recorded in
\* group.tokens.
C3_GroupIsSumOfMembers ==
  Returned =>
    \A g \in 1..Len(groups) :
      LET members == SeqToSet(groups[g].tokens)
      IN /\ groups[g].cashIn = SumSet(members, [t \in members |-> tokens[t].cashIn])
         /\ groups[g].cashOut = SumSet(members, [t \in members |-> tokens[t].cashOut])
         /\ groups[g].totalBuy = SumSet(members, [t \in members |-> tokens[t].totalBuy])
         /\ groups[g].totalSell
              = SumSet(members, [t \in members |-> tokens[t].totalSell])

\* The strings the configuration lists as an alias of some main token.
ConfiguredAliases ==
  UNION {SeqToSet(config.tokenAliases[k].aliases) : k \in 1..Len(config.tokenAliases)}

\* The quantity a transaction moves on the canonical token: what its legs
\* that name the token, under any of its names, receive, send and pay.
NetQuantity(transaction, token) ==
  (IF TruthyNum(transaction.amountReceived) /\ TruthyStr(transaction.tokenReceived)
      /\ resolveTokenAlias(config, transaction.tokenReceived[1]) = token
   THEN transaction.amountReceived[1] ELSE 0)
  - (IF TruthyNum(transaction.amountSent) /\ TruthyStr(transaction.tokenSent)
        /\ resolveTokenAlias(config, transaction.tokenSent[1]) = token
     THEN transaction.amountSent[1] ELSE 0)
  - (IF TruthyNum(transaction.fees) /\ TruthyStr(transaction.tokenFees)
        /\ resolveTokenAlias(config, transaction.tokenFees[1]) = token
     THEN transaction.fees[1] ELSE 0)

\* C4: as long as the fold has not thrown, every key of the token map is a
\* canonical symbol and none is a configured alias, and the quantity moved
\* by the legs that name an alias is accounted under the canonical key.
C4_KeysAreCanonical ==
  pc # "threw" =>
    \A t \in DOMAIN tokens :
      /\ resolveTokenAlias(config, t) = t
      /\ t \notin ConfiguredAliases
      /\ tokens[t].quantity.computed
           = Sum([j \in 1..index |-> NetQuantity(transactions[j], t)])

C4_Witness ==
  /\ pc = "done"
  /\ \E j \in 1..Len(transactions) :
       /\ transactions[j].tokenReceived = Some("Bitcoin")
       /\ resolveTokenAlias(config, "Bitcoin") = "BTC"
  /\ "BTC" \in DOMAIN tokens
  /\ tokens["BTC"].quantity.computed > 0

\* C5: every step of the engine (a transaction of the fold, the derived
\* field pass, the group aggregation, the group historic and its sort, the
\* valuation) keeps each token and leaves its historic as a prefix of the
\* new one.
C5_HistoricAppendOnly ==
  [][\A t \in DOMAIN tokens :
       /\ t \in DOMAIN tokens'
       /\ IsPrefix(tokens[t].historic, tokens'[t].historic)]_vars

C5_Witness ==
  /\ pc = "done"
  /\ \E t \in DOMAIN tokens : Len(tokens[t].historic) >= 3
  /\ \E g \in 1..Len(groups) :
       /\ Len(groups[g].historic) >= 2
       /\ groups[g].historic[1].transaction # transactions[1]

C7_TokenValuation ==
  pc = "done" =>
    \A k \in 1..Len(valuations) :
      \A t \in PricedTokens(config.scenarios[k]) :
        LET price == config.scenarios[k].prices[t]
            valuation == valuations[k].tokenValuations[t]
        IN /\ valuation.computed = tokens[t].quantity.computed * price
           /\ valuation.expected
                = IF tokens[t].quantity.expected = undefined THEN undefined
                  ELSE Some(tokens[t].quantity.expected[1] * price)

C9_NeverThrows == pc # "threw"

\* What the claim has a transaction add to cashOut of a canonical token.
ClaimedCashOut(transaction, token) ==
  IF /\ transaction.type = "Échange"
     /\ transaction.tokenReceived # undefined
     /\ Includes(config.fiatTokens, transaction.tokenReceived[1])
     /\ transaction.tokenSent # undefined
     /\ transaction.amountSent # undefined
     /\ transaction.priceTokenSent # undefined
     /\ resolveTokenAlias(config, transaction.tokenSent[1]) = token
  THEN transaction.amountSent[1] * transaction.priceTokenSent[1]
  ELSE 0

\* C10: each Exchange that receives a fiat token and carries tokenSent,
\* amountSent and priceTokenSent adds amountSent x priceTokenSent to cashOut
\* of the canonical sent token, whether or not amountReceived and
\* priceTokenReceived are present, and no other transaction changes a
\* cashOut: after any number of transactions a token's cashOut is the sum of
\* these contributions.
C10_CashOut ==
  pc # "threw" =>
    \A t \in DOMAIN tokens :
      tokens[t].cashOut = Sum([j \in 1..index |-> ClaimedCashOut(transactions[j], t)])

\* The entry of a token in a map, a token the map does not hold yet counting
\* as a new one.
TokenAt(map, t) == IF t \in DOMAIN map THEN map[t] ELSE NewTokenData(config, t)

\* The fold has processed transactions[index + 1] and goes on.
Processed == pc = "fold" /\ pc' = "fold" /\ index' = index + 1

\* What the claims call a fiat investment.
ClaimedFiatInvestment(transaction) ==
  \/ /\ transaction.type = "Échange"
     /\ transaction.tokenSent # undefined
     /\ Includes(config.fiatTokens, transaction.tokenSent[1])
  \/ /\ transaction.type = "Dépôt"
     /\ transaction.label = "Achat de crypto"

\* C11: processing an Exchange or a Deposit labelled "Achat de crypto" that
\* carries amountReceived, priceTokenReceived and tokenReceived adds
\* amountReceived x priceTokenReceived to totalBuy of the canonical received
\* token, adds the same value to its cashIn if and only if the transaction is
\* a fiat investment, and leaves totalBuy and cashIn of every other token as
\* they were.
C11_ReceiveLeg ==
  [][Processed =>
       LET transaction == transactions[index + 1]
       IN (/\ \/ transaction.type = "Échange"
              \/ /\ transaction.type = "Dépôt"
                 /\ transaction.label = "Achat de crypto"
           /\ transaction.amountReceived # undefined
           /\ transaction.priceTokenReceived # undefined
           /\ transaction.tokenReceived # undefined)
          => LET received == resolveTokenAlias(config, transaction.tokenReceived[1])
                 value == transaction.amountReceived[1]
                            * transaction.priceTokenReceived[1]
             IN \A t \in DOMAIN tokens' \cup {received} :
                  /\ TokenAt(tokens', t).totalBuy - TokenAt(tokens, t).totalBuy
                       = IF t = received THEN value ELSE 0
                  /\ TokenAt(tokens', t).cashIn - TokenAt(tokens, t).cashIn
                       = IF t = received /\ ClaimedFiatInvestment(transaction)
                         THEN value ELSE 0]_vars

C11_Witness ==
  /\ pc = "fold"
  /\ index = Len(transactions)
  /\ \E j \in 1..index :
       /\ transactions[j].type = "Dépôt"
       /\ transactions[j].label = "Achat de crypto"
  /\ \E t \in DOMAIN tokens :
       /\ tokens[t].cashIn > 0
       /\ tokens[t].totalBuy > tokens[t].cashIn

\* C12: processing an Exchange that carries amountSent, priceTokenSent and
\* tokenSent adds amountSent x priceTokenSent to totalSell of the canonical
\* sent token, and processing a Deposit or a Withdrawal leaves totalSell of
\* every token as it was.
C12_SellLeg ==
  [][Processed =>
       LET transaction == transactions[index + 1]
       IN /\ (/\ transaction.type = "Échange"
              /\ transaction.amountSent # undefined
              /\ transaction.priceTokenSent # undefined
              /\ transaction.tokenSent # undefined)
             => LET sent == resolveTokenAlias(config, transaction.tokenSent[1])
                IN TokenAt(tokens', sent).totalSell - TokenAt(tokens, sent).totalSell
                     = transaction.amountSent[1] * transaction.priceTokenSent[1]
          /\ transaction.type \in {"Dépôt", "Retrait"}
             => \A t \in DOMAIN tokens' :
                  TokenAt(tokens', t).totalSell = TokenAt(tokens, t).totalSell]_vars

C12_Witness ==
  /\ pc = "fold"
  /\ index = Len(transactions)
  /\ index >= 2
  /\ transactions[index].type = "Retrait"
  /\ transactions[index].priceTokenSent # undefined
  /\ \E t \in DOMAIN tokens :
       /\ t # resolveTokenAlias(config, transactions[index].tokenSent[1])
       /\ tokens[t].totalSell > 0

\* What the claim has a transaction move on a canonical token: each leg is
\* counted when its amount and its token are present.
ClaimedQuantity(transaction, token) ==
  (IF /\ transaction.amountReceived # undefined
      /\ transaction.tokenReceived # undefined
      /\ resolveTokenAlias(config, transaction.tokenReceived[1]) = token
   THEN transaction.amountReceived[1] ELSE 0)
  - (IF /\ transaction.amountSent # undefined
        /\ transaction.tokenSent # undefined
        /\ resolveTokenAlias(config, transaction.tokenSent[1]) = token
     THEN transaction.amountSent[1] ELSE 0)
  - (IF /\ transaction.fees # undefined
        /\ transaction.tokenFees # undefined
        /\ resolveTokenAlias(config, transaction.tokenFees[1]) = token
     THEN transaction.fees[1] ELSE 0)

\* C13: processing one transaction, of any type, changes quantity.computed
\* of each canonical token by +amountReceived, -amountSent and -fees for the
\* legs that resolve to it, a leg counting when its amount and token are
\* present whatever the prices; legs on the same token add up and the
\* quantity of a token no leg names does not change.
C13_QuantityLegs ==
  [][Processed =>
       \A t \in DOMAIN tokens' :
         TokenAt(tokens', t).quantity.computed - TokenAt(tokens, t).quantity.computed
           = ClaimedQuantity(transactions[index + 1], t)]_vars

C13_Witness ==
  /\ pc = "fold"
  /\ index >= 2
  /\ LET transaction == transactions[index]
     IN /\ transaction.tokenReceived # undefined
        /\ transaction.tokenReceived = transaction.tokenFees
        /\ transaction.amountReceived # undefined
        /\ transaction.fees # undefined
        /\ transaction.priceTokenFees = undefined
        /\ \E t \in DOMAIN tokens :
             /\ ClaimedQuantity(transaction, t) = 0
             /\ tokens[t].quantity.computed # 0

\* The unit price the claim derives from a realized PnL and a quantity.
ClaimedUnitPrice(pnlRealized, quantity) ==
  IF pnlRealized > 0 THEN Num(0)
  ELSE IF quantity = 0 THEN Num(0)
  ELSE Div(Abs(pnlRealized), quantity)

\* C14: unitPrice.computed is 0 when pnlRealized > 0, 0 when pnlRealized <= 0
\* and the quantity is 0, and |pnlRealized| / quantity otherwise, in every
\* historic entry (with the entry's own quantity) and in the TokenData of
\* the returned Result.
C14_UnitPrice ==
  \A t \in DOMAIN tokens :
    /\ \A h \in 1..Len(tokens[t].historic) :
         LET entry == tokens[t].historic[h]
         IN entry.unitPrice = ClaimedUnitPrice(entry.pnlRealized, entry.quantity)
    /\ Returned =>
         tokens[t].unitPrice.computed
           = ClaimedUnitPrice(tokens[t].pnlRealized, tokens[t].quantity.computed)

C14_Witness ==
  /\ pc = "done"
  /\ \E t \in DOMAIN tokens :
       /\ tokens[t].pnlRealized < 0
       /\ tokens[t].unitPrice.computed \notin {Num(0), Num(1)}
       /\ \E h \in 1..Len(tokens[t].historic) :
            /\ tokens[t].historic[h].pnlRealized > 0
            /\ tokens[t].historic[h].quantity # 0
  /\ \E t \in DOMAIN tokens :
       \E h \in 1..Len(tokens[t].historic) :
         /\ tokens[t].historic[h].pnlRealized < 0
         /\ tokens[t].historic[h].quantity = 0

\* C15: in the returned Result, a token whose quantity.expected is defined
\* has delta = computed - expected and, when expected is not 0,
\* deltaPercent = delta / expected * 100; a token whose quantity.expected is
\* undefined has delta and deltaPercent undefined.
C15_Delta ==
  Returned =>
    \A t \in DOMAIN tokens :
      LET quantity == tokens[t].quantity
      IN IF quantity.expected # undefined
         THEN /\ quantity.delta = Some(quantity.computed - quantity.expected[1])
              /\ quantity.expected[1] # 0
                 => quantity.deltaPercent
                      = Some(Times(Div(quantity.computed - quantity.expected[1],
                                       quantity.expected[1]), 100))
         ELSE /\ quantity.delta = undefined
              /\ quantity.deltaPercent = undefined

C15_Witness ==
  /\ pc = "done"
  /\ \E t \in DOMAIN tokens :
       /\ tokens[t].quantity.expected \notin {undefined, Some(0)}
       /\ tokens[t].quantity.delta \notin {undefined, Some(0)}
       /\ tokens[t].quantity.deltaPercent = Some(Num(-50))
  /\ \E t \in DOMAIN tokens :
       /\ tokens[t].quantity.expected = undefined
       /\ tokens[t].quantity.computed # 0

\* C16: in the returned Result, a token whose expected quantity is 0 has an
\* undefined deltaPercent, no division by zero having been made, and its
\* delta is computed - 0.
C16_ExpectedZero ==
  Returned =>
    \A t \in DOMAIN tokens :
      tokens[t].quantity.expected = Some(0)
      => /\ tokens[t].quantity.deltaPercent = undefined
         /\ tokens[t].quantity.delta = Some(tokens[t].quantity.computed)

\* What the claim has a transaction add to the total of the fees.
ClaimedFees(transaction) ==
  IF transaction.fees # undefined /\ transaction.priceTokenFees # undefined
  THEN transaction.fees[1] * transaction.priceTokenFees[1]
  ELSE 0

\* C17: in the Result, overview.cashIn is the sum of cashIn over the tokens
\* of the map, overview.cashOut the sum of cashOut over them, and
\* overview.fees the sum of fees x priceTokenFees over the transactions, of
\* any type, that carry both.
C17_Overview ==
  Returned =>
    /\ overview.cashIn
         = SumSet(DOMAIN tokens, [t \in DOMAIN tokens |-> tokens[t].cashIn])
    /\ overview.cashOut
         = SumSet(DOMAIN tokens, [t \in DOMAIN tokens |-> tokens[t].cashOut])
    /\ overview.fees
         = Sum([j \in 1..Len(transactions) |-> ClaimedFees(transactions[j])])

\* A Result whose cashIn differs from the sent-side value the fold
\* accumulated, with a cash-out and the priced fee of a Withdrawal.
C17_Witness ==
  /\ pc = "done"
  /\ overview.cashIn
       # Sum([j \in 1..Len(transactions) |->
                FoldInvestedFiat(config, transactions[j], 0)])
  /\ overview.cashOut > 0
  /\ \E j \in 1..Len(transactions) :
       /\ transactions[j].type = "Retrait"
       /\ ClaimedFees(transactions[j]) > 0
  /\ overview.fees > 0

\* The entries of the table that match a symbol: the symbol is the main
\* token of the entry or one of its aliases.
MatchingEntries(table, token) ==
  { k \in 1..Len(table) :
      table[k].mainToken = token \/ Includes(table[k].aliases, token) }

\* The canonical name the claim gives a symbol: the main token of the first
\* matching entry in table order, the symbol itself when no entry matches.
ClaimedCanonical(table, token) ==
  IF MatchingEntries(table, token) = {} THEN token
  ELSE LET first == CHOOSE k \in MatchingEntries(table, token) :
                      \A other \in MatchingEntries(table, token) : k <= other
       IN table[first].mainToken

\* C18: for every symbol s and every alias table, resolveTokenAlias(s)
\* returns the canonical name c when s is c itself or one of c's aliases,
\* the first such c in table order, and s itself when s appears nowhere in
\* the table.
C18_ResolveTokenAlias ==
  (pc = "returned" /\ call.fn = "resolveTokenAlias") =>
    call.returned = Some(ClaimedCanonical(config.tokenAliases, call.argument))

\* C19: isFiatInvestmentTransaction is true exactly when the type is
\* Exchange and tokenSent is present and in the configured fiat set, or the
\* type is Deposit and the label is "Achat de crypto"; it is false for every
\* Withdrawal and for every Deposit with another label.
C19_IsFiatInvestment ==
  (pc = "returned" /\ call.fn = "isFiatInvestmentTransaction") =>
    /\ call.returned = Some(ClaimedFiatInvestment(call.argument))
    /\ call.argument.type = "Retrait" => call.returned = Some(FALSE)
    /\ (call.argument.type = "Dépôt" /\ call.argument.label # "Achat de crypto")
       => call.returned = Some(FALSE)

C19_Witness ==
  /\ pc = "returned"
  /\ call.fn = "isFiatInvestmentTransaction"
  /\ call.argument.type = "Retrait"
  /\ call.argument.label = "Achat de crypto"
  /\ call.argument.tokenSent # undefined
  /\ Includes(config.fiatTokens, call.argument.tokenSent[1])
  /\ call.returned = Some(FALSE)

\* C20: in the historic of every token, the cashInDelta, cashOutDelta,
\* totalBuyDelta and totalSellDelta of an entry are the entry's cashIn,
\* cashOut, totalBuy and totalSell minus those of the entry before it (minus
\* 0 for the first entry), and the deltas of a field summed up to an entry
\* give the field's value in that entry.
C20_HistoricDeltas ==
  \A t \in DOMAIN tokens :
    LET historic == tokens[t].historic
    IN \A i \in 1..Len(historic) :
         LET entry == historic[i]
         IN /\ entry.cashInDelta
                 = entry.cashIn - (IF i = 1 THEN 0 ELSE historic[i - 1].cashIn)
            /\ entry.cashOutDelta
                 = entry.cashOut - (IF i = 1 THEN 0 ELSE historic[i - 1].cashOut)
            /\ entry.totalBuyDelta
                 = entry.totalBuy - (IF i = 1 THEN 0 ELSE historic[i - 1].totalBuy)
            /\ entry.totalSellDelta
                 = entry.totalSell - (IF i = 1 THEN 0 ELSE historic[i - 1].totalSell)
            /\ Sum([h \in 1..i |-> historic[h].cashInDelta]) = entry.cashIn
            /\ Sum([h \in 1..i |-> historic[h].cashOutDelta]) = entry.cashOut
            /\ Sum([h \in 1..i |-> historic[h].totalBuyDelta]) = entry.totalBuy
            /\ Sum([h \in 1..i |-> historic[h].totalSellDelta]) = entry.totalSell

C20_Witness ==
  \E t \in DOMAIN tokens :
    LET historic == tokens[t].historic
    IN /\ Len(historic) >= 3
       /\ historic[1].cashInDelta > 0
       /\ historic[2].cashInDelta > 0
       /\ historic[3].cashOutDelta > 0
       /\ historic[3].totalSellDelta > 0
       /\ historic[3].totalBuyDelta = 0
       /\ historic[3].cashIn > historic[2].cashInDelta

\* The canonical tokens named by the legs of a transaction whose amount and
\* token are both present.
NamedByPresentLeg(transaction) ==
  { resolveTokenAlias(config, leg.token[1]) :
      leg \in { l \in { Leg(transaction.amountReceived, transaction.tokenReceived, undefined),
                        Leg(transaction.amountSent, transaction.tokenSent, undefined),
                        Leg(transaction.fees, transaction.tokenFees, undefined) } :
                  l.amount # undefined /\ l.token # undefined } }

\* The canonical tokens named by the legs of a transaction whose token is
\* present and whose amount is present and not 0.
NamedByMovingLeg(transaction) ==
  { resolveTokenAlias(config, leg.token[1]) :
      leg \in { l \in { Leg(transaction.amountReceived, transaction.tokenReceived, undefined),
                        Leg(transaction.amountSent, transaction.tokenSent, undefined),
                        Leg(transaction.fees, transaction.tokenFees, undefined) } :
                  l.amount \notin {undefined, Some(0)} /\ l.token # undefined } }

\* The step just taken appended to the historic of each token of named, and
\* of no other token, one entry carrying the transaction and the values the
\* token has after the step.
OneEntryFor(named, transaction) ==
  /\ named \subseteq DOMAIN tokens'
  /\ \A t \in DOMAIN tokens' :
       LET before == TokenAt(tokens, t).historic
           after == tokens'[t].historic
       IN IF t \in named
          THEN /\ Len(after) = Len(before) + 1
               /\ SubSeq(after, 1, Len(before)) = before
               /\ after[Len(after)].transaction = transaction
               /\ after[Len(after)].date = transaction.date
               /\ after[Len(after)].quantity = tokens'[t].quantity.computed
               /\ after[Len(after)].cashIn = tokens'[t].cashIn
               /\ after[Len(after)].cashOut = tokens'[t].cashOut
               /\ after[Len(after)].totalBuy = tokens'[t].totalBuy
               /\ after[Len(after)].totalSell = tokens'[t].totalSell
          ELSE after = before

\* C21: processing one transaction appends exactly one historic entry to
\* each canonical token named by a leg whose amount and token are both
\* present, one only when several legs name the token, and none to any
\* other token; the entry carries the token's values after all the legs.
C21_OneEntryPerPresentLeg ==
  [][Processed =>
       OneEntryFor(NamedByPresentLeg(transactions[index + 1]),
                   transactions[index + 1])]_vars

\* C21, amended: the tokens that get the entry are those named by a leg
\* whose token is present and whose amount is present and not 0.
C21_OneEntryPerMovingLeg ==
  [][Processed =>
       OneEntryFor(NamedByMovingLeg(transactions[index + 1]),
                   transactions[index + 1])]_vars

\* A transaction whose received token and fee token are one canonical
\* token, received under an alias by an earlier transaction, has given it
\* one entry.
C21_Witness ==
  /\ pc = "fold"
  /\ index = 2
  /\ transactions[1].tokenReceived = Some("Bitcoin")
  /\ transactions[2].tokenReceived = Some("BTC")
  /\ transactions[2].tokenFees = Some("BTC")
  /\ transactions[2].fees # undefined
  /\ "BTC" \in DOMAIN tokens
  /\ Len(tokens["BTC"].historic) = 2
  /\ tokens["BTC"].historic[2].quantity = tokens["BTC"].quantity.computed
  /\ \E t \in DOMAIN tokens : Len(tokens[t].historic) = 1

RECURSIVE Collected(_)
\* The historic entries of the member tokens found in the map, members in
\* the given order and each token's entries in the order of its historic.
Collected(members) ==
  IF members = <<>> THEN <<>>
  ELSE Collected(SubSeq(members, 1, Len(members) - 1))
       \o (IF members[Len(members)] \in DOMAIN tokens
           THEN tokens[members[Len(members)]].historic ELSE <<>>)

RECURSIVE AtTime(_, _)
\* The entries or points of s whose timestamp is time, in the order of s,
\* each identified by its date and its transaction.
AtTime(s, time) ==
  IF s = <<>> THEN <<>>
  ELSE AtTime(SubSeq(s, 1, Len(s) - 1), time)
       \o (IF parseDate(s[Len(s)].date) = time
           THEN << <<s[Len(s)].date, s[Len(s)].transaction>> >> ELSE <<>>)

\* C22: in every group's historic the points are in non-decreasing order of
\* timestamp, and the points of one timestamp are in the order in which
\* their source entries were collected: member tokens in configured order,
\* each token's entries in the order of its historic.
C22_GroupHistoricOrder ==
  Returned =>
    \A g \in 1..Len(groups) :
      LET historic == groups[g].historic
          collected == Collected(config.groups[g].tokens)
      IN /\ \A i, j \in 1..Len(historic) :
              i < j => parseDate(historic[i].date) <= parseDate(historic[j].date)
         /\ \A time \in {parseDate(collected[k].date) : k \in 1..Len(collected)}
                        \cup {parseDate(historic[k].date) : k \in 1..Len(historic)} :
              AtTime(historic, time) = AtTime(collected, time)

\* A group of two tokens whose collected entries start with a later date
\* than one that follows, with two entries of one timestamp from different
\* tokens and a token bringing two entries of one timestamp.
C22_Witness ==
  /\ pc = "done"
  /\ \E g \in 1..Len(groups) :
       LET collected == Collected(config.groups[g].tokens)
       IN /\ Len(collected) >= 3
          /\ \E k \in 2..Len(collected) :
               parseDate(collected[k].date) < parseDate(collected[1].date)
          /\ groups[g].historic[1].transaction # collected[1].transaction
          /\ \E t, u \in DOMAIN tokens :
               /\ t # u
               /\ \E i \in 1..Len(tokens[t].historic), j \in 1..Len(tokens[u].historic) :
                    /\ tokens[t].historic[i].date = tokens[u].historic[j].date
                    /\ tokens[t].historic[i].transaction
                         # tokens[u].historic[j].transaction
               /\ Includes(config.groups[g].tokens, t)
               /\ Includes(config.groups[g].tokens, u)

\* C23: the historic of every group has one point per historic entry of the
\* tokens recorded in group.tokens; the k-th point's cashIn, cashOut,
\* totalBuy and totalSell are the sums of the deltas of the first k source
\* entries in sorted order and its pnlRealized is its totalSell - totalBuy.
C23_GroupHistoricAccumulation ==
  Returned =>
    \A g \in 1..Len(groups) :
      LET historic == groups[g].historic
          source == SortByDate(Collected(groups[g].tokens))
      IN /\ Len(historic) = Len(source)
         /\ \A k \in 1..Len(historic) :
              /\ k <= Len(source) =>
                   /\ historic[k].cashIn
                        = Sum([h \in 1..k |-> source[h].cashInDelta])
                   /\ historic[k].cashOut
                        = Sum([h \in 1..k |-> source[h].cashOutDelta])
                   /\ historic[k].totalBuy
                        = Sum([h \in 1..k |-> source[h].totalBuyDelta])
                   /\ historic[k].totalSell
                        = Sum([h \in 1..k |-> source[h].totalSellDelta])
              /\ historic[k].pnlRealized
                   = historic[k].totalSell - historic[k].totalBuy

\* C27: for every group of the returned Result, when group.tokens is not
\* empty the last point of the historic has the cashIn, cashOut, totalBuy,
\* totalSell and pnlRealized of the group's aggregate; when no configured
\* member, under any of its names, is in the ledger, group.tokens is empty,
\* the aggregate fields are 0 and the historic is empty.
C27_AggregateMatchesTimeline ==
  Returned =>
    \A g \in 1..Len(groups) :
      LET group == groups[g]
          members == config.groups[g].tokens
      IN /\ group.tokens # <<>> =>
              /\ group.historic # <<>>
              /\ LET last == group.historic[Len(group.historic)]
                 IN /\ last.cashIn = group.cashIn
                    /\ last.cashOut = group.cashOut
                    /\ last.totalBuy = group.totalBuy
                    /\ last.totalSell = group.totalSell
                    /\ last.pnlRealized = group.pnlRealized
         /\ (\A k \in 1..Len(members) :
               resolveTokenAlias(config, members[k]) \notin DOMAIN tokens) =>
              /\ group.tokens = <<>>
              /\ group.cashIn = 0
              /\ group.cashOut = 0
              /\ group.totalBuy = 0
              /\ group.totalSell = 0
              /\ group.pnlRealized = 0
              /\ group.historic = <<>>

\* The legs of a transaction, each with the sign of its amount on the
\* quantity of its token.
LegsOf(transaction) ==
  { [ amount |-> transaction.amountReceived, token |-> transaction.tokenReceived,
      price |-> transaction.priceTokenReceived, side |-> "received" ],
    [ amount |-> transaction.amountSent, token |-> transaction.tokenSent,
      price |-> transaction.priceTokenSent, side |-> "sent" ],
    [ amount |-> transaction.fees, token |-> transaction.tokenFees,
      price |-> transaction.priceTokenFees, side |-> "fees" ] }

\* The legs that carry an amount and a token but no price.
UnpricedLegs(transaction) ==
  { leg \in LegsOf(transaction) :
      leg.amount # undefined /\ leg.token # undefined /\ leg.price = undefined }

\* The transaction with the amount of its unpriced legs taken away.
WithoutUnpricedAmounts(transaction) ==
  LET unpriced == {leg.side : leg \in UnpricedLegs(transaction)}
  IN [transaction EXCEPT
        !.amountReceived = IF "received" \in unpriced THEN undefined ELSE @,
        !.amountSent = IF "sent" \in unpriced THEN undefined ELSE @,
        !.fees = IF "fees" \in unpriced THEN undefined ELSE @]

\* The value-based fields of a token.
ValueFields(tokenData) ==
  [ cashIn |-> tokenData.cashIn, cashOut |-> tokenData.cashOut,
    totalBuy |-> tokenData.totalBuy, totalSell |-> tokenData.totalSell ]

\* The step just taken processed a transaction with unpriced legs: they
\* raised no error, the value-based fields of every token and the total of
\* the fees are what the transaction gives without the amounts of these
\* legs, the quantity of their tokens moved by the amounts, and each token
\* of entered got a historic entry.
UnpricedLegsSkipped(entered) ==
  LET transaction == transactions[index + 1]
      priced == WithoutUnpricedAmounts(transaction)
      reference == FoldTokens(config, priced, Ledger(tokens, tokenKeys, FALSE))
  IN (/\ pc = "fold"
      /\ index' = index + 1
      /\ UnpricedLegs(transaction) # {})
     => /\ ~reference.threw => pc' = "fold"
        /\ pc' = "fold" =>
             /\ \A t \in DOMAIN tokens' :
                  ValueFields(tokens'[t]) = ValueFields(TokenAt(reference.tokens, t))
             /\ totalFees' = updateFeesData(priced, totalFees)
             /\ \A leg \in UnpricedLegs(transaction) :
                  LET t == resolveTokenAlias(config, leg.token[1])
                  IN /\ TokenAt(tokens', t).quantity.computed
                          - TokenAt(tokens, t).quantity.computed
                          = ClaimedQuantity(transaction, t)
                     /\ leg \in entered =>
                          Len(TokenAt(tokens', t).historic)
                            = Len(TokenAt(tokens, t).historic) + 1

\* C24: a leg with an amount and a token but no price raises no error and
\* is skipped for the value-based fields: cashIn, cashOut, totalBuy,
\* totalSell and the total of the fees are as without it, while the
\* token's quantity.computed moves by the amount and a historic entry is
\* appended for the token.
C24_UnpricedLeg ==
  [][UnpricedLegsSkipped(UnpricedLegs(transactions[index + 1]))]_vars

\* C24, amended: the historic entry is appended when the amount of the leg
\* is not 0.
C24_UnpricedMovingLeg ==
  [][UnpricedLegsSkipped({leg \in UnpricedLegs(transactions[index + 1]) :
                            leg.amount # Some(0)})]_vars

\* A received amount without a price and a fee without a price have moved
\* quantities and left the value-based fields and the fees as they were.
C24_Witness ==
  /\ pc = "fold"
  /\ index = 2
  /\ \A j \in 1..2 :
       \E leg \in UnpricedLegs(transactions[j]) : leg.amount # Some(0)
  /\ \E leg \in UnpricedLegs(transactions[1]) : leg.side = "received"
  /\ \E leg \in UnpricedLegs(transactions[2]) : leg.side = "fees"
  /\ transactions[2].type = "Échange"
  /\ totalFees = 0
  /\ \E t \in DOMAIN tokens :
       /\ tokens[t].quantity.computed # 0
       /\ ValueFields(tokens[t]) = ValueFields(NewTokenData(config, t))
       /\ tokens[t].historic # <<>>

RECURSIVE Moving(_, _)
\* The transactions of a list that move a quantity of a canonical token, in
\* the order of the list.
Moving(list, token) ==
  IF list = <<>> THEN <<>>
  ELSE Moving(SubSeq(list, 1, Len(list) - 1), token)
       \o (IF token \in NamedByMovingLeg(list[Len(list)])
           THEN <<list[Len(list)]>> ELSE <<>>)

\* C25: parseTransactions reads the transactions in the order given and
\* never changes the list; the historic of each token lists its entries in
\* input order, with the dates of the transactions as given, ascending or
\* not.
C25_InputOrderKept ==
  /\ [](pc # "threw" =>
          \A t \in DOMAIN tokens :
            /\ [h \in 1..Len(tokens[t].historic) |-> tokens[t].historic[h].transaction]
                 = Moving(SubSeq(transactions, 1, index), t)
            /\ \A h \in 1..Len(tokens[t].historic) :
                 tokens[t].historic[h].date = tokens[t].historic[h].transaction.date)
  /\ [][transactions' = transactions]_vars

\* A returned Result for a list whose dates descend: a token's historic
\* descends with it while a group's historic ascends.
C25_Witness ==
  /\ pc = "done"
  /\ Len(transactions) >= 2
  /\ parseDate(transactions[1].date) > parseDate(transactions[2].date)
  /\ \E t \in DOMAIN tokens :
       /\ Len(tokens[t].historic) >= 2
       /\ parseDate(tokens[t].historic[1].date) > parseDate(tokens[t].historic[2].date)
       /\ \E g \in 1..Len(groups) :
            /\ Includes(config.groups[g].tokens, t)
            /\ Len(groups[g].historic) >= 2
            /\ parseDate(groups[g].historic[1].date)
                 < parseDate(groups[g].historic[Len(groups[g].historic)].date)

\* C26: processing a Withdrawal, or a Deposit whose label is not "Achat de
\* crypto", leaves cashIn, cashOut, totalBuy and totalSell of every token
\* unchanged: of the token map only quantity.computed and the historic of
\* tokens named by its legs change.
C26_WithdrawalAndPlainDeposit ==
  [][Processed =>
       LET transaction == transactions[index + 1]
       IN (\/ transaction.type = "Retrait"
           \/ /\ transaction.type = "Dépôt"
              /\ transaction.label # "Achat de crypto")
          => \A t \in DOMAIN tokens' :
               /\ ValueFields(tokens'[t]) = ValueFields(TokenAt(tokens, t))
               /\ [tokens'[t] EXCEPT !.quantity.computed = 0, !.historic = <<>>]
                    = [TokenAt(tokens, t) EXCEPT !.quantity.computed = 0,
                                                 !.historic = <<>>]
               /\ t \notin NamedByPresentLeg(transaction)
                  => tokens'[t] = TokenAt(tokens, t)]_vars

\* A plain Deposit with a priced received leg and a Withdrawal with a priced
\* sent leg and a priced fee have been processed after a purchase.
C26_Witness ==
  /\ pc = "fold"
  /\ index = 3
  /\ transactions[2].type = "Dépôt"
  /\ transactions[2].label # "Achat de crypto"
  /\ transactions[2].priceTokenReceived # undefined
  /\ transactions[3].type = "Retrait"
  /\ transactions[3].priceTokenSent # undefined
  /\ totalFees > 0
  /\ \E t \in NamedByPresentLeg(transactions[3]) :
       /\ t \in DOMAIN tokens
       /\ tokens[t].totalBuy > 0
       /\ tokens[t].totalSell = 0
       /\ Len(tokens[t].historic) = 2

====
